---- MODULE Spec2Model ----
(***************************************************************************)
(* Model of the ingestion-and-classification pipeline of the personal      *)
(* finance tracker: the background categorization task registry and        *)
(* runner (app/routers/categorize.py), the ledger handlers that run        *)
(* concurrently with it (app/routers/transactions.py) and the upload       *)
(* path (app/routers/upload.py, app/services/csv_parser.py).               *)
(*                                                                         *)
(* Conventions.  Python None is NoneVal for strings and NoTime (0) for     *)
(* timestamps; the clock starts at 1, so a recorded timestamp is never 0.  *)
(* Request handlers are `async def` without an await after their input is  *)
(* read, so each is one action.  The runner is a thread: it is cut into    *)
(* steps at its blocking calls (store query, classification call, commit). *)
(* Task ids (uuid4 prefixes in the code) are the positions 1, 2, ... of    *)
(* the tasks in the registry, which is a dict in insertion order.          *)
(***************************************************************************)
EXTENDS Integers, Sequences, FiniteSets, TLC

\* ---------------------------------------------------------------- bounds
\* number of records in the ledger when the task scenario starts
NumRecords == 3
\* number of tasks that may be created in one behaviour
MaxTasks == 2
\* number of external events in one behaviour: requests to the handlers,
\* failures of the store or of the classification service, clock ticks
\* (the steps of a runner that do not fail are not counted)
MaxEvents == 2

\* number of upload requests in one behaviour of the upload scenario
MaxUploads == 3

\* longest list of candidates given to filter_duplicates on its own
MaxLen == 3

\* ------------------------------------------------------ program constants
\* categorize.py:25 (50 in the code; scaled so that a run has several batches)
BATCH_SIZE == 2

\* categorize.py:27 (declared, read nowhere in the code)
MAX_CONCURRENT == 100

NoneVal == "None"
NoTime == 0

\* categories.py DEFAULT_CATEGORIES, reduced to two categories
DEFAULT_CATEGORIES ==
  [c \in {"Food", "Other"} |->
     IF c = "Food" THEN <<"Groceries", "Restaurants">> ELSE <<"Uncategorized">>]

\* what the external service may answer for one record, before validation:
\* an unknown category, or a known category with an unknown subcategory
RawAnswers == {<<"Bogus", "Bogus">>, <<"Other", "Bogus">>}

\* a row of a statement file as csv.reader returns it: the number of its
\* cells and the cells parse_csv_content reads. date 0 is a cell parse_date
\* rejects, transaction_id 0 is an empty cell
DataRow(date, transaction_id, description) ==
  [cells |-> 26, date |-> date, transaction_id |-> transaction_id,
   description |-> description]
HeaderRow == [cells |-> 26, date |-> 0, transaction_id |-> 0,
              description |-> "header"]
ShortRow == [cells |-> 3, date |-> 1, transaction_id |-> 0,
             description |-> "Shop"]
EmptyRow == [cells |-> 0, date |-> 0, transaction_id |-> 0, description |-> ""]

\* the statement files of the upload scenario: the account number in the file
\* name and the rows. f1 repeats a supplied id, f2 shares an id with f1 and has
\* a short and an empty row, f3 has no valid row, f4 has two rows only
\* (one header row and one data row), f5 has five data rows without supplied
\* ids, one of them dateless and
\* one repeating another up to the case of the description
Files ==
  {[name |-> "f1", source_account |-> "a1",
    rows |-> <<HeaderRow, HeaderRow, DataRow(1, 1, "Shop"),
               DataRow(1, 2, "Shop"), DataRow(1, 1, "Shop")>>],
   [name |-> "f2", source_account |-> "a2",
    rows |-> <<HeaderRow, HeaderRow, DataRow(1, 1, "Shop"), ShortRow,
               DataRow(1, 3, "Shop"), EmptyRow>>],
   [name |-> "f3", source_account |-> "a1",
    rows |-> <<HeaderRow, HeaderRow, DataRow(0, 0, "Shop")>>],
   [name |-> "f4", source_account |-> "a1",
    rows |-> <<HeaderRow, DataRow(1, 4, "Shop")>>],
   [name |-> "f5", source_account |-> "a1",
    rows |-> <<HeaderRow, HeaderRow, DataRow(1, 0, "Shop"),
               DataRow(1, 0, "Cafe"), DataRow(0, 0, "Shop"),
               DataRow(1, 0, "shop"), DataRow(2, 0, "Shop")>>]}

VARIABLES
  ledger,     \* the transactions table: surrogate id -> row
  next_id,    \* next surrogate id the store assigns
  tasks,      \* _current_task: sequence of TaskState, position = task id
  runner,     \* per task: the runner thread's locals and position
  response,   \* last response of a task entry point (start / cancel)
  now,        \* the clock read by time.time()
  uploads,    \* per upload request: position and locals
  events,     \* number of external events so far
  requests    \* per categorize_batch request: position and locals

vars == <<ledger, next_id, tasks, runner, response, now, uploads, events,
          requests>>

\* --------------------------------------------------------------- helpers
Range(s) == {s[i] : i \in 1..Len(s)}

Min(a, b) == IF a < b THEN a ELSE b

SeqToSet(s) == Range(s)

\* Transaction row (models.py), restricted to the columns the pipeline uses
Row(tid, acct, date) ==
  [transaction_id |-> tid, source_account |-> acct, date |-> date,
   category |-> NoneVal, subcategory |-> NoneVal,
   ai_categorized |-> FALSE, is_internal_transfer |-> FALSE]

\* ORDER BY date DESC over a set of surrogate ids (ties: larger id first)
RECURSIVE OrderByDateDesc(_)
OrderByDateDesc(S) ==
  IF S = {} THEN <<>>
  ELSE LET m == CHOOSE x \in S :
                  \A y \in S : \/ ledger[x].date > ledger[y].date
                               \/ ledger[x].date = ledger[y].date /\ x >= y
       IN <<m>> \o OrderByDateDesc(S \ {m})

\* class TaskState.__init__
TaskState(total) ==
  [status |-> "pending", total |-> total, processed |-> 0, categorized |-> 0,
   errors |-> <<>>, cancel_requested |-> FALSE,
   started_at |-> NoTime, completed_at |-> NoTime]

Terminal == {"completed", "cancelled", "failed"}

TaskIds == 1..Len(tasks)

\* total_batches = (len(transaction_ids) + BATCH_SIZE - 1) // BATCH_SIZE
TotalBatches(ids) == (Len(ids) + BATCH_SIZE - 1) \div BATCH_SIZE

\* transaction_ids[start_idx:end_idx] of batch batch_num (0-based)
\* variant: the slice takes one id more than the batch size
BatchIds_Overlap(ids, batch_num) ==
  LET start_idx == batch_num * BATCH_SIZE
      end_idx == Min(start_idx + BATCH_SIZE + 1, Len(ids))
  IN {ids[i] : i \in (start_idx + 1)..end_idx}

BatchIds(ids, batch_num) ==
  LET start_idx == batch_num * BATCH_SIZE
      end_idx == Min(start_idx + BATCH_SIZE, Len(ids))
  IN {ids[i] : i \in (start_idx + 1)..end_idx}

\* f"Batch {batch_num + 1} failed: {str(e)}" and str(e); the text of e tells
\* which call raised
BatchError(n, e) == [kind |-> "batch", batch |-> n, e |-> e]
FatalError == [kind |-> "fatal", batch |-> 0, e |-> "store"]

\* categorize_with_gemini: validation of one answered (category, subcategory)
Validate(categories, category, subcategory) ==
  IF category \notin DOMAIN categories
    THEN <<"Other", "Uncategorized">>
  ELSE IF subcategory \notin Range(categories[category])
    THEN <<category, IF Len(categories[category]) > 0
                       THEN categories[category][1] ELSE "Uncategorized">>
  ELSE <<category, subcategory>>

\* validate_category (categories.py)
validate_category(category, subcategory) ==
  /\ category \in DOMAIN DEFAULT_CATEGORIES
  /\ subcategory # NoneVal => subcategory \in Range(DEFAULT_CATEGORIES[category])

\* ------------------------------------------------------------------ Init
Init ==
  /\ ledger = [i \in 1..NumRecords |-> Row(i, "a1", i)]
  /\ next_id = NumRecords + 1
  /\ tasks = <<>>
  /\ runner = <<>>
  /\ response = [op |-> "none", task_id |-> 0, status |-> "none"]
  /\ now = 1
  /\ uploads = <<>>
  /\ events = 0
  /\ requests = <<>>

\* ------------------------------------------------- task registry: handlers
\* locals of run_categorization_sync(task_id, transaction_ids) and its
\* position; class_failed and commit_failed record the history of the run:
\* the 1-based numbers of the batches whose classification call, respectively
\* whose commit, raised
NewRunner(ids) ==
  [pc |-> "start", ids |-> ids, batch_num |-> 0,
   loaded |-> <<>>, results |-> <<>>,
   class_failed |-> {}, commit_failed |-> {}]

RunningTasks == {t \in TaskIds : tasks[t].status = "running"}

\* the first task of the registry, in insertion order, that is running
FirstRunning == CHOOSE t \in RunningTasks : \A u \in RunningTasks : t <= u

Uncategorized == {id \in DOMAIN ledger : ledger[id].category = NoneVal}

\* variant: reports the running task with the status of a new task
StartAlreadyRunning_Pending ==
  /\ events < MaxEvents
  /\ events' = events + 1
  /\ RunningTasks # {}
  /\ response' = [op |-> "start", task_id |-> FirstRunning,
                  status |-> "pending"]
  /\ UNCHANGED <<ledger, next_id, tasks, runner, now, uploads, requests>>

\* POST /api/categorize/start, a task is running: report it
StartAlreadyRunning ==
  /\ events < MaxEvents
  /\ events' = events + 1
  /\ RunningTasks # {}
  /\ response' = [op |-> "start", task_id |-> FirstRunning,
                  status |-> tasks[FirstRunning].status]
  /\ UNCHANGED <<ledger, next_id, tasks, runner, now, uploads, requests>>

\* POST /api/categorize/start, nothing to categorize
StartNothingToDo ==
  /\ events < MaxEvents
  /\ events' = events + 1
  /\ RunningTasks = {}
  /\ Uncategorized = {}
  /\ response' = [op |-> "start", task_id |-> 0, status |-> "completed"]
  /\ UNCHANGED <<ledger, next_id, tasks, runner, now, uploads, requests>>

\* POST /api/categorize/start, create the task and start its thread
StartNewTask ==
  /\ events < MaxEvents
  /\ events' = events + 1
  /\ RunningTasks = {}
  /\ Uncategorized # {}
  /\ Len(tasks) < MaxTasks
  /\ LET transaction_ids == OrderByDateDesc(Uncategorized)
     IN /\ tasks' = Append(tasks, TaskState(Len(transaction_ids)))
        /\ runner' = Append(runner, NewRunner(transaction_ids))
  /\ response' = [op |-> "start", task_id |-> Len(tasks) + 1,
                  status |-> "pending"]
  /\ UNCHANGED <<ledger, next_id, now, uploads, requests>>

start_categorization == StartAlreadyRunning \/ StartNothingToDo \/ StartNewTask

\* GET /api/categorize/task/{task_id}: reads only, so it is an operator
get_task_status(t) ==
  LET task == tasks[t]
      end_time == IF task.completed_at # NoTime THEN task.completed_at ELSE now
  IN [task_id |-> t, status |-> task.status, total |-> task.total,
      processed |-> task.processed, categorized |-> task.categorized,
      errors |-> task.errors,
      elapsed_seconds |-> IF task.started_at # NoTime
                            THEN end_time - task.started_at ELSE -1]

\* variant: stops the task at once instead of raising the flag
cancel_task_Preempt(t) ==
  /\ events < MaxEvents
  /\ events' = events + 1
  /\ t \in TaskIds
  /\ IF tasks[t].status \in Terminal
       THEN /\ response' = [op |-> "cancel", task_id |-> t,
                            status |-> tasks[t].status]
            /\ UNCHANGED tasks
       ELSE /\ tasks' = [tasks EXCEPT ![t].status = "cancelled"]
            /\ response' = [op |-> "cancel", task_id |-> t,
                            status |-> "cancelling"]
  /\ UNCHANGED <<ledger, next_id, runner, now, uploads, requests>>

\* variant: the flag is raised for every task that has not ended
cancel_task_NotEnded(t) ==
  /\ events < MaxEvents
  /\ events' = events + 1
  /\ t \in TaskIds
  /\ IF tasks[t].status \in Terminal
       THEN /\ response' = [op |-> "cancel", task_id |-> t,
                            status |-> tasks[t].status]
            /\ UNCHANGED tasks
       ELSE /\ tasks' = [tasks EXCEPT ![t].cancel_requested = TRUE]
            /\ response' = [op |-> "cancel", task_id |-> t,
                            status |-> "cancelling"]
  /\ UNCHANGED <<ledger, next_id, runner, now, uploads, requests>>

\* POST /api/categorize/task/{task_id}/cancel
cancel_task(t) ==
  /\ events < MaxEvents
  /\ events' = events + 1
  /\ t \in TaskIds
  /\ IF tasks[t].status # "running"
       THEN /\ response' = [op |-> "cancel", task_id |-> t,
                            status |-> tasks[t].status]
            /\ UNCHANGED tasks
       ELSE /\ tasks' = [tasks EXCEPT ![t].cancel_requested = TRUE]
            /\ response' = [op |-> "cancel", task_id |-> t,
                            status |-> "cancelling"]
  /\ UNCHANGED <<ledger, next_id, runner, now, uploads, requests>>

\* ------------------------------------------------------- the runner thread
\* lines 110-118: mark the task running, open the thread's own session
RunnerBegin(t) ==
  /\ t \in TaskIds
  /\ runner[t].pc = "start"
  /\ tasks' = [tasks EXCEPT ![t].status = "running", ![t].started_at = now]
  /\ runner' = [runner EXCEPT ![t].pc = "loop"]
  /\ UNCHANGED <<ledger, next_id, response, now, uploads, events, requests>>

\* lines 110-118 when SessionLocal() raises: the call is before the try, so
\* the exception ends the thread
RunnerSessionFail(t) ==
  /\ events < MaxEvents
  /\ events' = events + 1
  /\ t \in TaskIds
  /\ runner[t].pc = "start"
  /\ tasks' = [tasks EXCEPT ![t].status = "running", ![t].started_at = now]
  /\ runner' = [runner EXCEPT ![t].pc = "dead"]
  /\ UNCHANGED <<ledger, next_id, response, now, uploads, requests>>

MoreBatches(t) == runner[t].batch_num < TotalBatches(runner[t].ids)

\* variant: cancelling undoes the assignments of the batches already done
RunnerCancelled_Rollback(t) ==
  /\ t \in TaskIds
  /\ runner[t].pc = "loop"
  /\ MoreBatches(t)
  /\ tasks[t].cancel_requested
  /\ tasks' = [tasks EXCEPT ![t].status = "cancelled", ![t].completed_at = now]
  /\ runner' = [runner EXCEPT ![t].pc = "done"]
  /\ ledger' = [id \in DOMAIN ledger |->
       IF id \in SeqToSet(runner[t].ids) /\ ledger[id].ai_categorized
         THEN [ledger[id] EXCEPT !.category = NoneVal,
                                 !.subcategory = NoneVal,
                                 !.ai_categorized = FALSE]
         ELSE ledger[id]]
  /\ UNCHANGED <<next_id, response, now, uploads, events, requests>>

\* lines 126-129 then 176-187: cancel flag seen at the head of a batch
RunnerCancelled(t) ==
  /\ t \in TaskIds
  /\ runner[t].pc = "loop"
  /\ MoreBatches(t)
  /\ tasks[t].cancel_requested
  /\ tasks' = [tasks EXCEPT ![t].status = "cancelled", ![t].completed_at = now]
  /\ runner' = [runner EXCEPT ![t].pc = "done"]
  /\ UNCHANGED <<ledger, next_id, response, now, uploads, events, requests>>

\* variant: the cancel flag is not looked at
RunnerLoadBatch_NoCancelCheck(t) ==
  /\ t \in TaskIds
  /\ runner[t].pc = "loop"
  /\ MoreBatches(t)
  /\ LET batch_ids == BatchIds(runner[t].ids, runner[t].batch_num)
         found == batch_ids \cap DOMAIN ledger
     IN IF found = {}
          THEN runner' = [runner EXCEPT ![t].batch_num = @ + 1]
          ELSE runner' = [runner EXCEPT
                 ![t].pc = "classify",
                 ![t].loaded = [id \in found |->
                    [category |-> ledger[id].category,
                     subcategory |-> ledger[id].subcategory,
                     ai_categorized |-> ledger[id].ai_categorized]]]
  /\ UNCHANGED <<ledger, next_id, tasks, response, now, uploads, events, requests>>

\* lines 131-141: load the rows of the batch; an empty batch is skipped
RunnerLoadBatch(t) ==
  /\ t \in TaskIds
  /\ runner[t].pc = "loop"
  /\ MoreBatches(t)
  /\ ~tasks[t].cancel_requested
  /\ LET batch_ids == BatchIds(runner[t].ids, runner[t].batch_num)
         found == batch_ids \cap DOMAIN ledger
     IN IF found = {}
          THEN runner' = [runner EXCEPT ![t].batch_num = @ + 1]
          ELSE runner' = [runner EXCEPT
                 ![t].pc = "classify",
                 ![t].loaded = [id \in found |->
                    [category |-> ledger[id].category,
                     subcategory |-> ledger[id].subcategory,
                     ai_categorized |-> ledger[id].ai_categorized]]]
  /\ UNCHANGED <<ledger, next_id, tasks, response, now, uploads, events, requests>>

\* lines 136-138 raising (store unavailable), handled at 182-187
RunnerLoadFail(t) ==
  /\ events < MaxEvents
  /\ events' = events + 1
  /\ t \in TaskIds
  /\ runner[t].pc = "loop"
  /\ MoreBatches(t)
  /\ ~tasks[t].cancel_requested
  /\ tasks' = [tasks EXCEPT ![t].status = "failed",
                            ![t].errors = Append(@, FatalError)]
  /\ runner' = [runner EXCEPT ![t].pc = "done"]
  /\ UNCHANGED <<ledger, next_id, response, now, uploads, requests>>

\* the validated answers categorize_with_gemini may return for the loaded
\* rows: any subset of them, each with a pair made valid by Validate
ServiceAnswers(ids) ==
  LET pairs == {Validate(DEFAULT_CATEGORIES, a[1], a[2]) : a \in RawAnswers}
  IN UNION {[S -> pairs] : S \in SUBSET ids}

\* lines 143-164: the call returns; the rows named in the answer are assigned
\* in the session and counted
RunnerClassifyOk(t) ==
  /\ t \in TaskIds
  /\ runner[t].pc = "classify"
  /\ \E result_map \in ServiceAnswers(DOMAIN runner[t].loaded) :
       /\ runner' = [runner EXCEPT
            ![t].pc = "commit",
            ![t].results = result_map]
       /\ tasks' = [tasks EXCEPT
            ![t].categorized = @ + Cardinality(DOMAIN result_map)]
  /\ UNCHANGED <<ledger, next_id, response, now, uploads, events, requests>>

\* variant: a failed batch is not counted as processed
RunnerClassifyRaise_NotCounted(t) ==
  /\ events < MaxEvents
  /\ events' = events + 1
  /\ t \in TaskIds
  /\ runner[t].pc = "classify"
  /\ tasks' = [tasks EXCEPT
       ![t].errors = Append(@, BatchError(runner[t].batch_num + 1, "service"))]
  /\ runner' = [runner EXCEPT
       ![t].pc = "loop", ![t].batch_num = @ + 1,
       ![t].loaded = <<>>, ![t].results = <<>>,
       ![t].class_failed = @ \cup {runner[t].batch_num + 1}]
  /\ UNCHANGED <<ledger, next_id, response, now, uploads, requests>>

\* lines 143-153 raising, handled at 169-173
RunnerClassifyRaise(t) ==
  /\ events < MaxEvents
  /\ events' = events + 1
  /\ t \in TaskIds
  /\ runner[t].pc = "classify"
  /\ tasks' = [tasks EXCEPT
       ![t].errors = Append(@, BatchError(runner[t].batch_num + 1, "service")),
       ![t].processed = @ + Cardinality(DOMAIN runner[t].loaded)]
  /\ runner' = [runner EXCEPT
       ![t].pc = "loop", ![t].batch_num = @ + 1,
       ![t].loaded = <<>>, ![t].results = <<>>,
       ![t].class_failed = @ \cup {runner[t].batch_num + 1}]
  /\ UNCHANGED <<ledger, next_id, response, now, uploads, requests>>

\* the UPDATE the session flushes for one row: only the attributes whose
\* value differs from the loaded one are written
Flush(row, was, pair) ==
  [row EXCEPT
     !.category = IF was.category # pair[1] THEN pair[1] ELSE @,
     !.subcategory = IF was.subcategory # pair[2] THEN pair[2] ELSE @,
     !.ai_categorized = IF was.ai_categorized # TRUE THEN TRUE ELSE @]

\* variant: processed grows by BATCH_SIZE instead of the rows loaded
RunnerCommitOk_FullBatch(t) ==
  /\ t \in TaskIds
  /\ runner[t].pc = "commit"
  /\ ledger' = [id \in DOMAIN ledger |->
       IF id \in DOMAIN runner[t].results
         THEN Flush(ledger[id], runner[t].loaded[id], runner[t].results[id])
         ELSE ledger[id]]
  /\ tasks' = [tasks EXCEPT ![t].processed = @ + BATCH_SIZE]
  /\ runner' = [runner EXCEPT
       ![t].pc = "loop", ![t].batch_num = @ + 1,
       ![t].loaded = <<>>, ![t].results = <<>>]
  /\ UNCHANGED <<next_id, response, now, uploads, events, requests>>

\* lines 166-167: the commit succeeds
RunnerCommitOk(t) ==
  /\ t \in TaskIds
  /\ runner[t].pc = "commit"
  /\ ledger' = [id \in DOMAIN ledger |->
       IF id \in DOMAIN runner[t].results
         THEN Flush(ledger[id], runner[t].loaded[id], runner[t].results[id])
         ELSE ledger[id]]
  /\ tasks' = [tasks EXCEPT
       ![t].processed = @ + Cardinality(DOMAIN runner[t].loaded)]
  /\ runner' = [runner EXCEPT
       ![t].pc = "loop", ![t].batch_num = @ + 1,
       ![t].loaded = <<>>, ![t].results = <<>>]
  /\ UNCHANGED <<next_id, response, now, uploads, events, requests>>

\* variant: a failed commit is not reported
RunnerCommitFail_Silent(t) ==
  /\ events < MaxEvents
  /\ events' = events + 1
  /\ t \in TaskIds
  /\ runner[t].pc = "commit"
  /\ tasks' = [tasks EXCEPT
       ![t].processed = @ + Cardinality(DOMAIN runner[t].loaded)]
  /\ runner' = [runner EXCEPT
       ![t].pc = "loop", ![t].batch_num = @ + 1,
       ![t].loaded = <<>>, ![t].results = <<>>,
       ![t].commit_failed = @ \cup {runner[t].batch_num + 1}]
  /\ UNCHANGED <<ledger, next_id, response, now, uploads, requests>>

\* line 166 raising, handled at 169-173: nothing of the batch is written
RunnerCommitFail(t) ==
  /\ events < MaxEvents
  /\ events' = events + 1
  /\ t \in TaskIds
  /\ runner[t].pc = "commit"
  /\ tasks' = [tasks EXCEPT
       ![t].errors = Append(@, BatchError(runner[t].batch_num + 1, "commit")),
       ![t].processed = @ + Cardinality(DOMAIN runner[t].loaded)]
  /\ runner' = [runner EXCEPT
       ![t].pc = "loop", ![t].batch_num = @ + 1,
       ![t].loaded = <<>>, ![t].results = <<>>,
       ![t].commit_failed = @ \cup {runner[t].batch_num + 1}]
  /\ UNCHANGED <<ledger, next_id, response, now, uploads, requests>>

\* lines 175-187 after the last batch
RunnerFinish(t) ==
  /\ t \in TaskIds
  /\ runner[t].pc = "loop"
  /\ ~MoreBatches(t)
  /\ tasks' = [tasks EXCEPT
       ![t].status = IF @ = "running" THEN "completed" ELSE @,
       ![t].completed_at = now]
  /\ runner' = [runner EXCEPT ![t].pc = "done"]
  /\ UNCHANGED <<ledger, next_id, response, now, uploads, events, requests>>

run_categorization_sync(t) ==
  \/ RunnerBegin(t) \/ RunnerSessionFail(t)
  \/ RunnerCancelled(t) \/ RunnerLoadBatch(t) \/ RunnerLoadFail(t)
  \/ RunnerClassifyOk(t) \/ RunnerClassifyRaise(t)
  \/ RunnerCommitOk(t) \/ RunnerCommitFail(t)
  \/ RunnerFinish(t)

\* ------------------------------------------- ledger handlers (transactions.py)
\* PATCH /transactions/{id}/category
update_category(id, category, subcategory) ==
  /\ events < MaxEvents
  /\ events' = events + 1
  /\ validate_category(category, subcategory)
  /\ id \in DOMAIN ledger
  /\ ledger' = [ledger EXCEPT ![id].category = category,
                              ![id].subcategory = subcategory,
                              ![id].ai_categorized = FALSE]
  /\ UNCHANGED <<next_id, tasks, runner, response, now, uploads, requests>>

\* DELETE /transactions/{id}
delete_transaction(id) ==
  /\ events < MaxEvents
  /\ events' = events + 1
  /\ id \in DOMAIN ledger
  /\ ledger' = [i \in DOMAIN ledger \ {id} |-> ledger[i]]
  /\ UNCHANGED <<next_id, tasks, runner, response, now, uploads, requests>>

\* DELETE /transactions/all: refused unless confirm is 'DELETE_ALL'
delete_all_transactions(confirm) ==
  /\ events < MaxEvents
  /\ events' = events + 1
  /\ ledger' = IF confirm = "DELETE_ALL" THEN <<>> ELSE ledger
  /\ UNCHANGED <<next_id, tasks, runner, response, now, uploads, requests>>

\* the id lists of the bulk delete requests: empty, existing rows, and a list
\* naming a row that does not exist
BulkIds == {{}, {1, 2}, {NumRecords - 1, NumRecords, NumRecords + 1}}

\* POST /transactions/delete-bulk: refused when the list is empty, else every
\* row whose id is in the list is deleted
delete_transactions_bulk(ids) ==
  /\ events < MaxEvents
  /\ events' = events + 1
  /\ ledger' = [i \in DOMAIN ledger \ ids |-> ledger[i]]
  /\ UNCHANGED <<next_id, tasks, runner, response, now, uploads, requests>>

\* --------------------------------------------- POST /api/categorize/batch
\* the values of the query parameter batch_size
BatchSizes == {1, BATCH_SIZE, BATCH_SIZE + 1}

\* categorize_batch lines 340-360: query the uncategorized rows, newest first,
\* at most batch_size of them; answer at once when there is none, else hand
\* them to the classification client
BatchLoad(batch_size) ==
  /\ events < MaxEvents
  /\ events' = events + 1
  /\ LET uncategorized == OrderByDateDesc(Uncategorized)
         transactions ==
           SubSeq(uncategorized, 1, Min(batch_size, Len(uncategorized)))
     IN requests' = Append(requests,
          [pc |-> IF transactions = <<>> THEN "done" ELSE "classify",
           batch_size |-> batch_size,
           loaded |-> [id \in Range(transactions) |->
                         [category |-> ledger[id].category,
                          subcategory |-> ledger[id].subcategory,
                          ai_categorized |-> ledger[id].ai_categorized]],
           result_map |-> <<>>, categorized |-> 0])
  /\ UNCHANGED <<ledger, next_id, tasks, runner, response, now, uploads>>

\* lines 361-384: the call returns, the rows named in the answer are assigned
\* and committed, the response reports their number
BatchApply(r) ==
  /\ r \in 1..Len(requests)
  /\ requests[r].pc = "classify"
  /\ \E result_map \in ServiceAnswers(DOMAIN requests[r].loaded) :
       /\ ledger' = [id \in DOMAIN ledger |->
            IF id \in DOMAIN result_map
              THEN Flush(ledger[id], requests[r].loaded[id], result_map[id])
              ELSE ledger[id]]
       /\ requests' = [requests EXCEPT
            ![r].pc = "done", ![r].loaded = <<>>,
            ![r].result_map = result_map,
            ![r].categorized = Cardinality(DOMAIN result_map)]
  /\ UNCHANGED <<next_id, tasks, runner, response, now, uploads, events>>

\* lines 361-369 raising (the call or the commit), handled at 387-389: status
\* 500, nothing is written
BatchRaise(r) ==
  /\ events < MaxEvents
  /\ events' = events + 1
  /\ r \in 1..Len(requests)
  /\ requests[r].pc = "classify"
  /\ requests' = [requests EXCEPT ![r].pc = "error", ![r].loaded = <<>>]
  /\ UNCHANGED <<ledger, next_id, tasks, runner, response, now, uploads>>

categorize_batch(r) == BatchApply(r) \/ BatchRaise(r)

\* time passes
Tick ==
  /\ events < MaxEvents
  /\ events' = events + 1
  /\ now' = now + 1
  /\ UNCHANGED <<ledger, next_id, tasks, runner, response, uploads, requests>>

\* the pairs the manual requests set: one the service never answers and the
\* one it answers
ManualPairs == {<<"Food", "Groceries">>, <<"Other", "Uncategorized">>}

Next ==
  \/ start_categorization
  \/ \E t \in 1..MaxTasks : cancel_task(t)
  \/ \E t \in 1..MaxTasks : run_categorization_sync(t)
  \/ \E id \in 1..NumRecords, p \in ManualPairs : update_category(id, p[1], p[2])
  \/ \E id \in 1..NumRecords : delete_transaction(id)
  \/ \E confirm \in {"DELETE_ALL", "yes"} : delete_all_transactions(confirm)
  \/ \E ids \in BulkIds : delete_transactions_bulk(ids)
  \/ \E batch_size \in BatchSizes : BatchLoad(batch_size)
  \/ \E r \in 1..MaxEvents : categorize_batch(r)
  \/ Tick

Spec == Init /\ [][Next]_vars

TypeOK ==
  /\ \A t \in TaskIds : tasks[t].status \in {"pending", "running"} \cup Terminal
  /\ Len(runner) = Len(tasks)

\* ===================================================== properties of Spec
\* the increasing sequence of the numbers of a finite set
RECURSIVE SortedSeq(_)
SortedSeq(S) ==
  IF S = {} THEN <<>>
  ELSE LET m == CHOOSE x \in S : \A y \in S : x <= y
       IN <<m>> \o SortedSeq(S \ {m})

BatchNumbers(errors) == [i \in 1..Len(errors) |-> errors[i].batch]

Stopped(t) == runner[t].pc \in {"done", "dead"}

\* C1: in every reachable state at most one task of the registry is running
C1_AtMostOneRunning == Cardinality(RunningTasks) <= 1

\* C2: a start request made while a task is running returns the id and the
\* status of a running task, adds no task, starts no runner and changes no
\* field of any task
C2_StartWhileRunning ==
  [][(RunningTasks # {} /\ start_categorization) =>
       /\ tasks' = tasks
       /\ runner' = runner
       /\ ledger' = ledger
       /\ response'.op = "start"
       /\ response'.task_id \in RunningTasks
       /\ response'.status = tasks[response'.task_id].status]_vars

\* C2 witness: a start request was answered with the task that is running,
\* after that task had loaded a batch
C2_Witness ==
  /\ response.op = "start"
  /\ response.status = "running"
  /\ response.task_id \in RunningTasks
  /\ runner[response.task_id].loaded # <<>>

\* C3: the status of a task changes only along pending -> running and
\* running -> completed | cancelled | failed; a terminal status never changes
\* and no task leaves the registry
AllowedTransitions ==
  {<<"pending", "running">>, <<"running", "completed">>,
   <<"running", "cancelled">>, <<"running", "failed">>}

C3_StatusTransitions ==
  [][/\ Len(tasks') >= Len(tasks)
     /\ \A t \in TaskIds :
          \/ tasks'[t].status = tasks[t].status
          \/ <<tasks[t].status, tasks'[t].status>> \in AllowedTransitions]_vars

\* C3 witness: a task went from pending to running and, after a cancel
\* request, from running to cancelled
C3_Witness ==
  \E t \in TaskIds :
    /\ tasks[t].status = "cancelled"
    /\ tasks[t].started_at # NoTime
    /\ tasks[t].completed_at # NoTime
    /\ response = [op |-> "cancel", task_id |-> t, status |-> "cancelling"]

\* C4 as stated: a task whose cancellation was requested while it ran ends
\* cancelled (checked when its runner has finished)
C4_Original ==
  \A t \in TaskIds :
    (tasks[t].cancel_requested /\ runner[t].pc = "done")
      => tasks[t].status = "cancelled"

\* C4 amended: a task becomes cancelled only at a batch boundary, with the
\* flag set, a batch still to do and no batch in flight; and a runner that
\* reaches a batch boundary with the flag set and a batch still to do can only
\* end the task cancelled there
C4_CancelAtBatchBoundary ==
  [][\A t \in TaskIds :
       /\ (tasks[t].status # "cancelled" /\ tasks'[t].status = "cancelled")
            => /\ tasks[t].status = "running"
               /\ tasks[t].cancel_requested
               /\ runner[t].pc = "loop"
               /\ MoreBatches(t)
               /\ runner[t].loaded = <<>>
               /\ runner'[t].pc = "done"
               /\ tasks'[t].processed = tasks[t].processed
       /\ (/\ runner[t].pc = "loop" /\ MoreBatches(t)
           /\ tasks[t].cancel_requested
           /\ runner'[t] # runner[t])
            => tasks'[t].status = "cancelled"]_vars

\* C4 witness: a task was cancelled after at least one batch was processed
C4_Witness ==
  \E t \in TaskIds :
    /\ tasks[t].status = "cancelled"
    /\ tasks[t].processed > 0
    /\ tasks[t].processed < tasks[t].total

\* C5: processed never exceeds total
C5_ProcessedAtMostTotal ==
  \A t \in TaskIds : tasks[t].processed <= tasks[t].total

\* C5 witness: a run in which a batch failed ended with processed = total
C5_Witness ==
  \E t \in TaskIds :
    /\ tasks[t].status = "completed"
    /\ tasks[t].errors # <<>>
    /\ tasks[t].processed = tasks[t].total

FinishedRun(t) ==
  runner[t].pc = "done" /\ tasks[t].status \in {"completed", "cancelled"}

Untouched(t, id) ==
  /\ id \in DOMAIN ledger
  /\ ledger[id].category = runner[t].loaded[id].category
  /\ ledger[id].subcategory = runner[t].loaded[id].subcategory
  /\ ledger[id].ai_categorized = runner[t].loaded[id].ai_categorized

C8_Original ==
  \A t \in TaskIds :
    /\ Stopped(t) => tasks[t].status \in Terminal
    /\ runner[t].pc = "dead" =>
         /\ tasks[t].status = "failed"
         /\ tasks[t].errors # <<>>

\* C9: a task in a terminal status has completed_at set, so the elapsed time
\* a poll reports is completed_at - started_at
C9_Original ==
  \A t \in TaskIds :
    tasks[t].status \in Terminal =>
      /\ tasks[t].completed_at # NoTime
      /\ get_task_status(t).elapsed_seconds
           = tasks[t].completed_at - tasks[t].started_at

\* =================================================== the upload scenario
\* str.lower() on the descriptions of the files
Lower(description) ==
  CASE description = "Shop" -> "shop"
    [] description = "Cafe" -> "cafe"
    [] OTHER -> description

\* variant: the digest also covers a value that differs between requests
GeneratedId_Salted(date, description, source_account) ==
  1000 * next_id + 20 * date
      + 4 * (CASE Lower(description) = "shop" -> 1
               [] Lower(description) = "cafe" -> 2
               [] OTHER -> 0)
      + (IF source_account = "a1" THEN 1 ELSE 2)

\* parse_csv_content lines 152-168: the id generated for a row without one.
\* The digest is taken as injective on the parts it hashes; the parts that
\* vary in Files are the date, the lower-cased description and the account
GeneratedId(date, description, source_account) ==
  100 + 20 * date
      + 4 * (CASE Lower(description) = "shop" -> 1
               [] Lower(description) = "cafe" -> 2
               [] OTHER -> 0)
      + (IF source_account = "a1" THEN 1 ELSE 2)

\* parse_csv_content lines 123-203: the loop over the data rows; a record is
\* represented by its transaction_id
RECURSIVE ParseRows(_, _)
ParseRows(data_rows, source_account) ==
  IF data_rows = <<>> THEN <<>>
  ELSE LET row == Head(data_rows)
           rest == ParseRows(Tail(data_rows), source_account)
       IN IF row.cells = 0 \/ row.cells < 26 \/ row.date = 0
            THEN rest
            ELSE <<IF row.transaction_id # 0
                     THEN row.transaction_id
                     ELSE GeneratedId(row.date, row.description,
                                      source_account)>> \o rest

\* variant: a file below three rows is read from its second row on
parse_csv_content_Lenient(f) ==
  IF Len(f.rows) < 3
    THEN [error |-> FALSE,
          transactions |-> ParseRows(SubSeq(f.rows, 2, Len(f.rows)),
                                     f.source_account)]
    ELSE [error |-> FALSE,
          transactions |-> ParseRows(SubSeq(f.rows, 3, Len(f.rows)),
                                     f.source_account)]

\* parse_csv_content (csv_parser.py): ValueError below three rows, else the
\* records of the rows after the two header rows
parse_csv_content(f) ==
  IF Len(f.rows) < 3
    THEN [error |-> TRUE, transactions |-> <<>>]
    ELSE [error |-> FALSE,
          transactions |-> ParseRows(SubSeq(f.rows, 3, Len(f.rows)),
                                     f.source_account)]

\* get_existing_transaction_ids (csv_parser.py)
get_existing_transaction_ids(source_account) ==
  {ledger[id].transaction_id :
     id \in {i \in DOMAIN ledger : ledger[i].source_account = source_account}}

\* filter_duplicates (csv_parser.py): the loop over the candidates, carrying
\* new_transactions, duplicates and the growing existing_ids
RECURSIVE FilterLoop(_, _, _, _)
FilterLoop(transactions, existing_ids, new_transactions, duplicates) ==
  IF transactions = <<>>
    THEN [new |-> new_transactions, duplicates |-> duplicates]
  ELSE LET txn == Head(transactions)
       IN IF txn \in existing_ids
            THEN FilterLoop(Tail(transactions), existing_ids,
                            new_transactions, duplicates + 1)
            ELSE FilterLoop(Tail(transactions), existing_ids \cup {txn},
                            Append(new_transactions, txn), duplicates)

\* variant: an accepted id is not added to the known set
filter_duplicates_NoAdd(transactions, existing_ids) ==
  LET new == SelectSeq(transactions, LAMBDA txn : txn \notin existing_ids)
  IN [new |-> new, duplicates |-> Len(transactions) - Len(new)]

filter_duplicates(transactions, existing_ids) ==
  FilterLoop(transactions, existing_ids, <<>>, 0)

NoResult == [new_transactions |-> -1, duplicates_skipped |-> -1,
             total_in_file |-> -1]

\* upload_csv lines 46-63: parse (status 400 when parsing raises or yields no
\* record), count, read the known ids of the account, filter
UploadFilter(f) ==
  /\ Len(uploads) < MaxUploads
  /\ LET parsed == parse_csv_content(f)
         transactions == parsed.transactions
     IN IF parsed.error \/ transactions = <<>>
          THEN uploads' = Append(uploads,
                 [pc |-> "rejected", file |-> f, total_in_file |-> 0,
                  new |-> <<>>, duplicates |-> 0, saved |-> 0,
                  result |-> NoResult])
          ELSE LET r == filter_duplicates(
                          transactions,
                          get_existing_transaction_ids(f.source_account))
               IN uploads' = Append(uploads,
                    [pc |-> "save", file |-> f,
                     total_in_file |-> Len(transactions), new |-> r.new,
                     duplicates |-> r.duplicates, saved |-> 0,
                     result |-> NoResult])
  /\ UNCHANGED <<ledger, next_id, tasks, runner, response, now, events, requests>>

\* the rows of the unique constraint uix_transaction_source (models.py)
Keys == {<<ledger[id].transaction_id, ledger[id].source_account>> :
           id \in DOMAIN ledger}

\* variant: the table has no unique constraint
Conflicts_None(u) == FALSE

\* the insert of upload u violates the unique constraint
Conflicts(u) ==
  \E i \in 1..Len(uploads[u].new) :
    <<uploads[u].new[i], uploads[u].file.source_account>> \in Keys

\* save_transactions (csv_parser.py), called at upload_csv line 66: all rows
\* are inserted in one transaction
UploadSave(u) ==
  /\ u \in 1..Len(uploads)
  /\ uploads[u].pc = "save"
  /\ ~Conflicts(u)
  /\ LET new == uploads[u].new
         n == Len(new)
     IN /\ ledger' = [id \in DOMAIN ledger \cup (next_id..(next_id + n - 1)) |->
             IF id \in DOMAIN ledger THEN ledger[id]
             ELSE Row(new[id - next_id + 1], uploads[u].file.source_account, 1)]
        /\ next_id' = next_id + n
        /\ uploads' = [uploads EXCEPT
             ![u].saved = n,
             ![u].pc = IF n > 0 THEN "detect" ELSE "done",
             ![u].result = IF n > 0 THEN @
                           ELSE [new_transactions |-> 0,
                                 duplicates_skipped |-> uploads[u].duplicates,
                                 total_in_file |-> uploads[u].total_in_file]]
  /\ UNCHANGED <<tasks, runner, response, now, events, requests>>

\* save_transactions raising IntegrityError: nothing is inserted and the
\* exception leaves upload_csv
UploadSaveConflict(u) ==
  /\ u \in 1..Len(uploads)
  /\ uploads[u].pc = "save"
  /\ Conflicts(u)
  /\ uploads' = [uploads EXCEPT ![u].pc = "error"]
  /\ UNCHANGED <<ledger, next_id, tasks, runner, response, now, events, requests>>

\* the transaction_ids that occur under more than one source_account
SharedIds ==
  {ledger[i].transaction_id :
     i \in {k \in DOMAIN ledger :
              \E j \in DOMAIN ledger :
                /\ ledger[j].transaction_id = ledger[k].transaction_id
                /\ ledger[j].source_account # ledger[k].source_account}}

\* variant: only the rows of the account of the uploaded file are marked
UploadDetect_OwnAccount(u) ==
  /\ u \in 1..Len(uploads)
  /\ uploads[u].pc = "detect"
  /\ ledger' = [id \in DOMAIN ledger |->
       IF /\ ledger[id].transaction_id \in SharedIds
          /\ ledger[id].source_account = uploads[u].file.source_account
         THEN [ledger[id] EXCEPT !.is_internal_transfer = TRUE]
         ELSE ledger[id]]
  /\ uploads' = [uploads EXCEPT
       ![u].pc = "done",
       ![u].result = [new_transactions |-> uploads[u].saved,
                      duplicates_skipped |-> uploads[u].duplicates,
                      total_in_file |-> uploads[u].total_in_file]]
  /\ UNCHANGED <<next_id, tasks, runner, response, now, events, requests>>

\* detect_internal_transfers (csv_parser.py), then the response of upload_csv
UploadDetect(u) ==
  /\ u \in 1..Len(uploads)
  /\ uploads[u].pc = "detect"
  /\ ledger' = [id \in DOMAIN ledger |->
       IF ledger[id].transaction_id \in SharedIds
         THEN [ledger[id] EXCEPT !.is_internal_transfer = TRUE]
         ELSE ledger[id]]
  /\ uploads' = [uploads EXCEPT
       ![u].pc = "done",
       ![u].result = [new_transactions |-> uploads[u].saved,
                      duplicates_skipped |-> uploads[u].duplicates,
                      total_in_file |-> uploads[u].total_in_file]]
  /\ UNCHANGED <<next_id, tasks, runner, response, now, events, requests>>

InitUpload ==
  /\ ledger = <<>>
  /\ next_id = 1
  /\ tasks = <<>>
  /\ runner = <<>>
  /\ response = [op |-> "none", task_id |-> 0, status |-> "none"]
  /\ now = 1
  /\ uploads = <<>>
  /\ events = 0
  /\ requests = <<>>

NextUpload ==
  \/ \E f \in Files : UploadFilter(f)
  \/ \E u \in 1..MaxUploads : UploadSave(u)
  \/ \E u \in 1..MaxUploads : UploadSaveConflict(u)
  \/ \E u \in 1..MaxUploads : UploadDetect(u)

UploadSpec == InitUpload /\ [][NextUpload]_vars

\* C10: no two rows of the ledger share (transaction_id, source_account)
C10_UniqueKey ==
  \A i, j \in DOMAIN ledger :
    (/\ ledger[i].transaction_id = ledger[j].transaction_id
     /\ ledger[i].source_account = ledger[j].source_account) => i = j

\* C10 witness: two uploads of the same file raced; both passed the filter
\* with the same new rows, one inserted them and the other was stopped by the
\* constraint
C10_Witness ==
  \E u, v \in 1..Len(uploads) :
    /\ u # v
    /\ uploads[u].file = uploads[v].file
    /\ uploads[u].new = uploads[v].new
    /\ uploads[u].pc = "done"
    /\ uploads[v].pc = "error"
    /\ ledger # <<>>

\* C11 as stated: an upload whose insert hits the unique constraint, because
\* a concurrent upload of the same file inserted the same keys first, still
\* completes and does not end in an error
C11_Original ==
  \A u \in 1..Len(uploads) : uploads[u].pc # "error"

\* C12: once an upload of a file is done, a further upload of the same file
\* finds every record of the file known (rows with a supplied id and rows with
\* a generated id alike), and an upload with no new record inserts nothing,
\* leaves the ledger as it is and reports zero new records
C12_ReuploadInsertsNothing ==
  [][/\ \A f \in Files :
          (/\ UploadFilter(f)
           /\ \E v \in 1..Len(uploads) :
                uploads[v].file = f /\ uploads[v].pc = "done")
            => /\ uploads'[Len(uploads')].pc = "save"
               /\ uploads'[Len(uploads')].new = <<>>
               /\ uploads'[Len(uploads')].duplicates
                    = Len(parse_csv_content(f).transactions)
     /\ \A u \in 1..Len(uploads) :
          (/\ uploads[u].pc = "save"
           /\ uploads[u].new = <<>>
           /\ uploads'[u] # uploads[u])
            => /\ ledger' = ledger
               /\ uploads'[u].pc = "done"
               /\ uploads'[u].result.new_transactions = 0]_vars

\* C12 witness: the file whose ids are generated was uploaded twice; the first
\* upload inserted its records, the second inserted none and the ledger holds
\* exactly the records of the first
C12_Witness ==
  \E u, v \in 1..Len(uploads) :
    /\ u < v
    /\ uploads[u].file.name = "f5"
    /\ uploads[v].file = uploads[u].file
    /\ uploads[u].pc = "done"
    /\ uploads[u].result.new_transactions = 3
    /\ uploads[v].pc = "done"
    /\ uploads[v].result.new_transactions = 0
    /\ uploads[v].result.duplicates_skipped = 4
    /\ Cardinality(DOMAIN ledger) = 3

\* ============================================== filter_duplicates on its own
\* the ids of the candidates and of the known set
FilterIds == 1..NumRecords

Candidates == UNION {[1..n -> FilterIds] : n \in 0..MaxLen}

\* a call of filter_duplicates about to be made: its two arguments
InitFilter ==
  /\ ledger = <<>>
  /\ next_id = 1
  /\ tasks = <<>>
  /\ runner = <<>>
  /\ response = [op |-> "none", task_id |-> 0, status |-> "none"]
  /\ now = 1
  /\ events = 0
  /\ requests = <<>>
  /\ \E transactions \in Candidates, existing_ids \in SUBSET FilterIds :
       uploads = <<[pc |-> "filter", transactions |-> transactions,
                    existing_ids |-> existing_ids,
                    new |-> <<>>, duplicates |-> 0]>>

\* the call returns (new_transactions, duplicates)
FilterCall ==
  /\ uploads[1].pc = "filter"
  /\ LET r == filter_duplicates(uploads[1].transactions,
                                uploads[1].existing_ids)
     IN uploads' = [uploads EXCEPT ![1].pc = "filtered",
                                   ![1].new = r.new,
                                   ![1].duplicates = r.duplicates]
  /\ UNCHANGED <<ledger, next_id, tasks, runner, response, now, events, requests>>

NextFilter == FilterCall

FilterSpec == InitFilter /\ [][NextFilter]_vars

\* the positions of the candidates that are the first occurrence of an id
\* which is not known
FirstNew(candidates, known) ==
  {i \in 1..Len(candidates) :
     /\ candidates[i] \notin known
     /\ \A j \in 1..(i - 1) : candidates[j] # candidates[i]}

\* C13: filter_duplicates returns, in input order, exactly the first
\* occurrence of each candidate id that is not known, and counts every other
\* candidate, so len(new) + d = len(candidates), no id occurs twice in new and
\* no id of new was known before the call
C13_FilterDuplicates ==
  uploads[1].pc = "filtered" =>
    LET candidates == uploads[1].transactions
        known == uploads[1].existing_ids
        new == uploads[1].new
        d == uploads[1].duplicates
        kept == SortedSeq(FirstNew(candidates, known))
    IN /\ new = [k \in 1..Len(kept) |-> candidates[kept[k]]]
       /\ d = Len(candidates) - Len(kept)
       /\ Len(new) + d = Len(candidates)
       /\ \A i, j \in 1..Len(new) : new[i] = new[j] => i = j
       /\ \A i \in 1..Len(new) : new[i] \notin known

\* C13 witness: a call whose candidates repeat an unknown id and contain a
\* known id has returned
C13_Witness ==
  /\ uploads[1].pc = "filtered"
  /\ uploads[1].transactions = <<1, 2, 1>>
  /\ uploads[1].existing_ids = {2}
  /\ uploads[1].new = <<1>>
  /\ uploads[1].duplicates = 2

\* the source accounts under which a transaction_id occurs in the ledger
AccountsOf(transaction_id) ==
  {ledger[j].source_account :
     j \in {k \in DOMAIN ledger : ledger[k].transaction_id = transaction_id}}

\* every upload request made so far has returned
AllReturned ==
  \A u \in 1..Len(uploads) : uploads[u].pc \in {"done", "error", "rejected"}

\* C14: once every upload has returned (and nothing was deleted), a record is
\* marked is_internal_transfer exactly when its transaction_id occurs in the
\* ledger under two or more distinct source accounts
C14_InternalTransfers ==
  AllReturned =>
    \A id \in DOMAIN ledger :
      ledger[id].is_internal_transfer
        <=> Cardinality(AccountsOf(ledger[id].transaction_id)) >= 2

\* C14 witness: uploads for two accounts have returned; the id they share is
\* marked on both records and a record with an id of its own is not marked
C14_Witness ==
  /\ AllReturned
  /\ \E i, j, k \in DOMAIN ledger :
       /\ ledger[i].transaction_id = ledger[j].transaction_id
       /\ ledger[i].source_account # ledger[j].source_account
       /\ ledger[i].is_internal_transfer
       /\ ledger[j].is_internal_transfer
       /\ ledger[k].transaction_id # ledger[i].transaction_id
       /\ ~ledger[k].is_internal_transfer

\* the number of data rows of a file: the rows after the two header rows that
\* are not empty
DataRowCount(f) ==
  Len(SelectSeq(SubSeq(f.rows, 3, Len(f.rows)), LAMBDA row : row.cells # 0))

\* the data rows of a file that parse_csv_content drops
DroppedCount(f) == DataRowCount(f) - Len(parse_csv_content(f).transactions)

\* C15 as stated: the result of an upload reports as total_in_file the number
\* of data rows of the file, dropped rows included, so that new_transactions +
\* duplicates_skipped = total_in_file - dropped rows
C15_Original ==
  \A u \in 1..Len(uploads) :
    uploads[u].pc = "done" =>
      LET f == uploads[u].file
          r == uploads[u].result
      IN /\ r.total_in_file = DataRowCount(f)
         /\ r.new_transactions + r.duplicates_skipped
              = r.total_in_file - DroppedCount(f)

\* C16: an upload of a file with fewer than three rows is rejected when it is
\* parsed, that step leaves the ledger as it is, and a rejected upload takes
\* no further step (it inserts no record and marks no internal transfer)
C16_ParseFailure ==
  [][/\ \A f \in Files :
          (UploadFilter(f) /\ Len(f.rows) < 3)
            => /\ uploads'[Len(uploads')].pc = "rejected"
               /\ uploads'[Len(uploads')].file = f
               /\ ledger' = ledger
               /\ next_id' = next_id
     /\ \A u \in 1..Len(uploads) :
          uploads[u].pc = "rejected" => uploads'[u] = uploads[u]]_vars

\* C16 witness: an upload of the two-row file was rejected while the ledger
\* held records, one of them marked as internal transfer, and the ledger holds
\* no record of that file
C16_Witness ==
  \E u \in 1..Len(uploads) :
    /\ Len(uploads[u].file.rows) < 3
    /\ uploads[u].pc = "rejected"
    /\ \E id \in DOMAIN ledger : ledger[id].is_internal_transfer
    /\ \A id \in DOMAIN ledger : ledger[id].transaction_id # 4
    /\ AllReturned

\* ============================================ further properties of Spec
\* C17: the step in which a task becomes cancelled changes no ledger record,
\* and the runner of a cancelled task takes no further step, so the
\* assignments committed by its earlier batches are not undone by it
C17_CancelKeepsCommitted ==
  [][\A t \in TaskIds :
       /\ (tasks[t].status # "cancelled" /\ tasks'[t].status = "cancelled")
            => ledger' = ledger
       /\ tasks[t].status = "cancelled" => runner'[t] = runner[t]]_vars

\* C17 witness: a task is cancelled after a batch of it was committed, and the
\* assignment of that batch is in the ledger
C17_Witness ==
  \E t \in TaskIds :
    /\ tasks[t].status = "cancelled"
    /\ tasks[t].categorized > 0
    /\ tasks[t].processed < tasks[t].total
    /\ \E id \in SeqToSet(runner[t].ids) :
         /\ id \in DOMAIN ledger
         /\ ledger[id].ai_categorized
         /\ ledger[id].category # NoneVal

add_category(categories, name) ==
  [c \in DOMAIN categories \cup {name} |->
     IF c \in DOMAIN categories THEN categories[c] ELSE <<>>]

\* taxonomies get_all_categories may return: the default one, the default one
\* after add_category("Pets"), one without the category Other, and one whose
\* category Other has no subcategory Uncategorized
Taxonomies ==
  {DEFAULT_CATEGORIES,
   add_category(DEFAULT_CATEGORIES, "Pets"),
   [c \in {"Food"} |-> <<"Groceries", "Restaurants">>],
   [c \in {"Food", "Other"} |->
      IF c = "Food" THEN <<"Groceries">> ELSE <<"Misc">>]}

\* what one entry of the service response may hold
RawCategories == {"Food", "Other", "Pets", "Bogus"}
RawSubcategories == {"Groceries", "Uncategorized", "Bogus", NoneVal}

\* a runner inside categorize_with_gemini, about to validate one entry of the
\* response against the taxonomy it read
InitValidate ==
  /\ ledger = <<>>
  /\ next_id = 1
  /\ tasks = <<>>
  /\ response = [op |-> "none", task_id |-> 0, status |-> "none"]
  /\ now = 1
  /\ uploads = <<>>
  /\ events = 0
  /\ requests = <<>>
  /\ \E categories \in Taxonomies, category \in RawCategories,
        subcategory \in RawSubcategories :
       runner = <<[pc |-> "validate", categories |-> categories,
                   category |-> category, subcategory |-> subcategory,
                   validated |-> <<>>]>>

\* lines 541-555: the entry is validated and appended to validated_results
ValidateCall ==
  /\ runner[1].pc = "validate"
  /\ runner' = [runner EXCEPT
       ![1].pc = "validated",
       ![1].validated = Validate(runner[1].categories, runner[1].category,
                                 runner[1].subcategory)]
  /\ UNCHANGED <<ledger, next_id, tasks, response, now, uploads, events, requests>>

NextValidate == ValidateCall

ValidateSpec == InitValidate /\ [][NextValidate]_vars

\* C19 as stated: every (category, subcategory) pair the classification
\* client returns is a pair of the taxonomy it read, for every taxonomy and
\* every service response
C19_Original ==
  runner[1].pc = "validated" =>
    LET categories == runner[1].categories
        pair == runner[1].validated
    IN /\ pair[1] \in DOMAIN categories
       /\ pair[2] \in Range(categories[pair[1]])

\* C20 as stated: no entry point hands more than BATCH_SIZE records to the
\* classification client in one call, neither the runner of a task nor a
\* categorize_batch request
C20_Original ==
  /\ \A t \in TaskIds :
       Cardinality(DOMAIN runner[t].loaded) <= BATCH_SIZE
  /\ \A r \in 1..Len(requests) :
       requests[r].pc = "classify" =>
         Cardinality(DOMAIN requests[r].loaded) <= BATCH_SIZE

\* ===================================== a task already created: StartedSpec
\* the state after the first POST /api/categorize/start on the ledger of Init:
\* the task is registered over all records and its thread has not run yet
InitStarted ==
  /\ ledger = [i \in 1..NumRecords |-> Row(i, "a1", i)]
  /\ next_id = NumRecords + 1
  /\ tasks = <<TaskState(NumRecords)>>
  /\ runner = <<NewRunner(OrderByDateDesc(1..NumRecords))>>
  /\ response = [op |-> "start", task_id |-> 1, status |-> "pending"]
  /\ now = 1
  /\ uploads = <<>>
  /\ events = 0
  /\ requests = <<>>

StartedSpec == InitStarted /\ [][Next]_vars

\* the pair of a ledger row
PairOf(row) == <<row.category, row.subcategory>>

\* C21 as stated: update_category always leaves ai_categorized false, and a
\* record is marked ai_categorized only while its category and subcategory
\* are the ones the classification pipeline wrote: a step that changes a
\* record and leaves it marked is a commit of the pipeline that leaves the
\* record with the pair the pipeline answered for it
C21_Original ==
  [][\A id \in DOMAIN ledger \cap DOMAIN ledger' :
       /\ (\E p \in ManualPairs : update_category(id, p[1], p[2]))
            => ~ledger'[id].ai_categorized
       /\ (ledger'[id].ai_categorized /\ ledger'[id] # ledger[id])
            => \/ \E t \in TaskIds :
                    /\ runner[t].pc = "commit"
                    /\ runner'[t].pc = "loop"
                    /\ id \in DOMAIN runner[t].results
                    /\ PairOf(ledger'[id]) = runner[t].results[id]
               \/ \E r \in 1..Len(requests) :
                    /\ requests[r].pc = "classify"
                    /\ requests'[r].pc = "done"
                    /\ id \in DOMAIN requests'[r].result_map
                    /\ PairOf(ledger'[id]) = requests'[r].result_map[id]]_vars

\* the classification calls in flight: runners and categorize_batch requests
\* waiting for the service
CallsInFlight ==
  Cardinality({t \in TaskIds : runner[t].pc = "classify"})
    + Cardinality({r \in 1..Len(requests) : requests[r].pc = "classify"})

\* C22 as stated: the synchronous entry point dispatches all batches of its
\* working set (every uncategorized record is handed to the classification
\* client when the request is made), and never more than MAX_CONCURRENT calls
\* are in flight
C22_Original ==
  /\ [](CallsInFlight <= MAX_CONCURRENT)
  /\ [][\A batch_size \in BatchSizes :
          BatchLoad(batch_size) =>
            DOMAIN requests'[Len(requests')].loaded = Uncategorized]_vars

\* ---------------------------------------------------------------------------
\* The amount of a record (csv_parser.py:141-177).  parse_decimal returns None
\* for an empty or unreadable cell and the signed number otherwise; an
\* optional amount is the empty tuple (None) or a one-element tuple.
NoAmount == <<>>

AmountValues == {-1, 0, 1, 2}

ParsedAmounts == {NoAmount} \cup {<<v>> : v \in AmountValues}

\* Python truthiness of an Optional[Decimal]: None and Decimal("0") are false
Truthy(d) == d # NoAmount /\ d[1] # 0

\* Python's `a or b`
OrElse(a, b) == IF Truthy(a) THEN a ELSE b

\* csv_parser.py:171
is_expense(paid_out) == paid_out # NoAmount /\ paid_out[1] > 0

\* csv_parser.py:174-177
amount_gel(paid_out, paid_out_equiv, paid_in, paid_in_equiv) ==
  IF is_expense(paid_out)
    THEN OrElse(paid_out_equiv, OrElse(paid_out, <<0>>))[1]
    ELSE OrElse(paid_in_equiv, OrElse(paid_in, <<0>>))[1]

\* one row of a statement, its four amount cells already through parse_decimal
InitAmount ==
  /\ ledger = <<>>
  /\ next_id = 1
  /\ tasks = <<>>
  /\ runner = <<>>
  /\ response = NoResult
  /\ now = 1
  /\ \E paid_out \in ParsedAmounts, paid_out_equiv \in ParsedAmounts,
        paid_in \in ParsedAmounts, paid_in_equiv \in ParsedAmounts :
       uploads = <<[pc |-> "row",
                    paid_out |-> paid_out, paid_out_equiv |-> paid_out_equiv,
                    paid_in |-> paid_in, paid_in_equiv |-> paid_in_equiv,
                    is_expense |-> FALSE, amount_gel |-> 0]>>
  /\ events = 0
  /\ requests = <<>>

\* the row becomes a TransactionCreate (csv_parser.py:171-201)
AmountCall ==
  /\ uploads[1].pc = "row"
  /\ uploads' = <<[uploads[1] EXCEPT
                     !.pc = "parsed",
                     !.is_expense = is_expense(uploads[1].paid_out),
                     !.amount_gel = amount_gel(uploads[1].paid_out,
                                               uploads[1].paid_out_equiv,
                                               uploads[1].paid_in,
                                               uploads[1].paid_in_equiv)]>>
  /\ UNCHANGED <<ledger, next_id, tasks, runner, response, now, events, requests>>

NextAmount == AmountCall

AmountSpec == InitAmount /\ [][NextAmount]_vars

\* C23 as stated: every record the normalizer produces has amount_gel
\* strictly greater than zero, whatever its paid-out and paid-in cells hold
C23_Original ==
  \A u \in 1..Len(uploads) :
    uploads[u].pc = "parsed" => uploads[u].amount_gel > 0

\* The runner is a thread: its next step is taken whenever one is possible
\* (categorize.py:236-237, threading.Thread(...).start()).
FairSpec ==
  /\ Init
  /\ [][Next]_vars
  /\ \A t \in 1..MaxTasks : WF_vars(run_categorization_sync(t))

\* C24 as stated: every task created by start_categorization eventually
\* reaches a terminal status
C24_Original ==
  \A t \in 1..MaxTasks :
    (t \in TaskIds) ~> (t \in TaskIds /\ tasks[t].status \in Terminal)

\* C25 as stated: in every state a poll can observe, a task's categorized
\* counter is at most its processed counter
C25_Original ==
  \A t \in TaskIds :
    get_task_status(t).categorized <= get_task_status(t).processed

\* C26 as stated: the runner never overwrites a category set manually after
\* the task started; a record that is no longer uncategorized when the
\* runner commits its batch keeps its category, subcategory and flag
C26_Original ==
  [][\A t \in TaskIds :
       (runner[t].pc = "commit" /\ runner'[t].pc = "loop") =>
         \A id \in DOMAIN runner[t].loaded \cap DOMAIN ledger :
           (/\ runner[t].loaded[id].category # NoneVal
            /\ ~runner[t].loaded[id].ai_categorized)
             => ledger'[id] = ledger[id]]_vars

\* C27 as stated: a completed task has processed = total, also when records
\* of its snapshot were deleted while it ran
C27_Original ==
  \A t \in TaskIds :
    tasks[t].status = "completed" => tasks[t].processed = tasks[t].total

\* C28 as stated: at every batch boundary the categorized counter has grown
\* by the number of assignments the batch committed: by the size of the
\* answer when the commit succeeded and by nothing when it failed
C28_Original ==
  [][\A t \in TaskIds :
       (runner[t].pc = "commit" /\ runner'[t].pc = "loop") =>
         LET assigned == Cardinality(DOMAIN runner[t].results)
             before == tasks[t].categorized - assigned
             committed ==
               IF runner'[t].commit_failed # runner[t].commit_failed
                 THEN 0 ELSE assigned
         IN tasks'[t].categorized = before + committed]_vars

\* batch k (from 1) of an id snapshot: its k-th run of BATCH_SIZE ids
SnapshotBatch(ids, k) ==
  {ids[i] : i \in {j \in 1..Len(ids) :
                     (k - 1) * BATCH_SIZE < j /\ j <= k * BATCH_SIZE}}

\* a step of runner t that hands a batch to the classification client
Dispatch(t) == runner[t].pc # "classify" /\ runner'[t].pc = "classify"

\* C29 as stated: the calls of a run are exactly the batches 1..n of the
\* snapshot, every batch whole and none passed over, in increasing order,
\* one at a time, and never a second time
C29_Original ==
  [][\A t \in TaskIds :
       LET k == runner[t].batch_num + 1
       IN /\ runner'[t].ids = runner[t].ids
          /\ runner'[t].batch_num \in {k - 1, k}
          /\ runner'[t].batch_num = k => runner[t].pc \in {"classify", "commit"}
          /\ Dispatch(t) =>
               /\ runner[t].pc = "loop"
               /\ runner'[t].batch_num = k - 1
               /\ DOMAIN runner'[t].loaded = SnapshotBatch(runner[t].ids, k)]_vars

\* C29, amended: the calls of a run are made one at a time and in increasing
\* batch order; the call for batch k submits the records of batch k of the
\* snapshot that still exist in the ledger; a batch none of whose records
\* exists is passed over without a call; the next batch is dispatched only
\* after the commit or the error of the previous one has been recorded; no
\* batch is submitted a second time; a completed run has gone through all
\* batches
C29_SequentialBatches ==
  /\ [](\A t \in TaskIds :
          tasks[t].status = "completed" =>
            runner[t].batch_num * BATCH_SIZE >= Len(runner[t].ids))
  /\ [][\A t \in TaskIds :
          LET k == runner[t].batch_num + 1
              present == SnapshotBatch(runner[t].ids, k) \cap DOMAIN ledger
          IN /\ runner'[t].ids = runner[t].ids
             /\ runner'[t].batch_num \in {k - 1, k}
             /\ Dispatch(t) =>
                  /\ runner[t].pc = "loop"
                  /\ runner'[t].batch_num = k - 1
                  /\ present # {}
                  /\ DOMAIN runner'[t].loaded = present
             /\ (runner[t].pc = "loop" /\ runner'[t].batch_num = k) =>
                  present = {}
             /\ (runner[t].pc = "classify" /\ runner'[t].pc # "classify") =>
                  \/ runner'[t].pc = "commit" /\ runner'[t].batch_num = k - 1
                  \/ /\ runner'[t].pc = "loop" /\ runner'[t].batch_num = k
                     /\ Len(tasks'[t].errors) = Len(tasks[t].errors) + 1
             /\ (runner[t].pc = "commit" /\ runner'[t].pc # "commit") =>
                  /\ runner'[t].pc = "loop" /\ runner'[t].batch_num = k
                  /\ tasks'[t].processed = tasks[t].processed
                       + Cardinality(DOMAIN runner[t].loaded)]_vars

\* the second batch is in flight after the first one failed
C29_Witness ==
  \E t \in TaskIds :
    /\ runner[t].pc = "classify"
    /\ runner[t].batch_num = 1
    /\ 1 \in runner[t].class_failed
    /\ DOMAIN runner[t].loaded = SnapshotBatch(runner[t].ids, 2)
    /\ tasks[t].processed = BATCH_SIZE

\* ---------------------------------------------------------------------------
\* Uploads together with the delete requests of transactions.py.
NextTransfer ==
  \/ NextUpload
  \/ \E id \in 1..NumRecords : delete_transaction(id)
  \/ \E confirm \in {"DELETE_ALL", "yes"} : delete_all_transactions(confirm)
  \/ \E ids \in BulkIds : delete_transactions_bulk(ids)

TransferSpec == InitUpload /\ [][NextTransfer]_vars

\* C30 as stated: in every state of the ledger, also after deletions, a
\* record flagged as internal transfer has another record with the same
\* transaction_id under a different source account
C30_Original ==
  \A id \in DOMAIN ledger :
    ledger[id].is_internal_transfer =>
      \E other \in DOMAIN ledger \ {id} :
        /\ ledger[other].transaction_id = ledger[id].transaction_id
        /\ ledger[other].source_account # ledger[id].source_account

====
